---- MODULE Spec2Model ----
(***************************************************************************)
(* Batch ingestion with retry and bisection of                             *)
(* scripts/ingest_yearly_setlists.py: chunk_list, post_batch,              *)
(* post_batch_adaptive and the loops of ingest_years.                      *)
(*                                                                         *)
(* One step of the model is one request to the ingestion endpoint together *)
(* with all the code that runs until the next request is due (or until     *)
(* ingest_years returns or raises).  The recursion of post_batch_adaptive  *)
(* is an explicit stack of frames, innermost frame first.                  *)
(***************************************************************************)
EXTENDS Integers, Sequences, FiniteSets, TLC

VARIABLES
    pc,             \* "load", "post", "done", "raised", "chunk", "chunked"
    n_years,        \* len(years) of the call of ingest_years
    year,           \* number of years loaded so far (position of the year loop)
    batch_size,     \* ingest_years' batch_size
    records,        \* records of the current year
    batches,        \* chunk_list(records, batch_size)
    idx,            \* index of the top-level batch being posted
    total_new,      \* ingest_years' total_new
    total_updated,  \* ingest_years' total_updated
    stack,          \* frames of post_batch_adaptive, innermost first
    attempt,        \* post_batch's loop variable
    last_error,     \* post_batch's last_error
    raised_batch,   \* the batch of the post_batch_adaptive call that re-raised
    poison,         \* the record the endpoint rejects (0: none)
    \* history
    okLog,          \* this year's submissions post_batch returned from, in order
    result_log,     \* this year's values of ingest_years' result, in order
    lastReq,        \* the last request sent and its answer
    callReqs,       \* requests sent by the post_batch call of lastReq
    slept,          \* time.sleep ran after the last answer
    \* the paged fetch (fetch_all_rows, fetch_bronze_external_ids,
    \* get_distinct_external_ids)
    fpc,            \* "idle", "request", "returned", "raised"
    fn,             \* "rows": fetch_all_rows, "ids": the id-projecting fetches
    page_size,      \* PAGE_SIZE / page_size
    table,          \* the rows the endpoint serves, in its order
    srv,            \* the endpoint: rows per response at most, total reported
    range_from,     \* the cursor
    rows,           \* fetch_all_rows' rows
    ids,            \* the id-projecting fetches' ids
    fetched,        \* what the call returned
    reqs,           \* history: the requests of the call and their answers
    \* reconcile_years
    script,         \* "reconcile_setlists" or "ingest_yearly_setlists"
    rpc,            \* "idle", "year", "bronze", "silver", "written", "raised",
                    \* "entry", "built"
    ryears,         \* years
    ry,             \* number of years reconciled so far
    json_records,   \* the records of the year's file
    raw_table,      \* the rows of raw_data.setlists
    derived_table,  \* the rows of silver.setlists
    json_ids,
    bronze_ids,
    silver_ids,
    report,
    report_file,    \* reconciliation_report.json
    writes,         \* history: number of times the report file was written
    input           \* history: the identifiers the three tiers were built from

ingest_vars == <<pc, n_years, year, batch_size, records, batches, idx, total_new,
                 total_updated, stack, attempt, last_error, raised_batch, poison,
                 okLog, result_log, lastReq, callReqs, slept>>

fetch_vars == <<fpc, fn, page_size, table, srv, range_from, rows, ids, fetched,
                reqs>>

reconcile_vars == <<script, rpc, ryears, ry, json_records, raw_table,
                    derived_table, json_ids, bronze_ids, silver_ids, report,
                    report_file, writes, input>>

\* What the ingestion leaves alone
other_vars == <<fetch_vars, reconcile_vars>>

vars == <<ingest_vars, other_vars>>

----------------------------------------------------------------------------
\* Program constants

MAX_RETRIES == 2
MIN_BATCH_SIZE == 50
DEFAULT_BATCH_SIZE == 250

\* Bounds

MaxYears == 2
MaxRecords == 103
MaxLargeRecords == 251
MaxChunkLen == 12
MaxChunkSize == 13
MaxRows == 5
MaxIds == 60

\* Inputs of the runs with a free endpoint
RecordCounts == {0, 1, MIN_BATCH_SIZE + 1, MaxRecords}
BatchSizes == {MIN_BATCH_SIZE, MIN_BATCH_SIZE + 1, MaxRecords - 1, DEFAULT_BATCH_SIZE}

\* Inputs of the runs with a poison record and of those with an endpoint that
\* only accepts or fails
LargeRecordCounts == {2 * MIN_BATCH_SIZE, DEFAULT_BATCH_SIZE, MaxLargeRecords}
LargeBatchSizes == {MIN_BATCH_SIZE + 1, 2 * MIN_BATCH_SIZE + 1, DEFAULT_BATCH_SIZE}

----------------------------------------------------------------------------
\* Helpers

Min(a, b) == IF a < b THEN a ELSE b

Range(s) == {s[i] : i \in 1..Len(s)}

RecordsOfYear(n) == [i \in 1..n |-> i]

FailureStatuses == {"401", "5xx", "transport"}

NoRes == [success |-> FALSE, total_new_records |-> 0,
          total_updated_records |-> 0, results |-> <<>>]

NoReq == [batch |-> <<>>, attempt |-> 0, status |-> "none"]

\* The JSON bodies the endpoint may answer a batch with.
Responses(batch) ==
    {[success |-> s, total_new_records |-> n,
      total_updated_records |-> Len(batch) - n,
      results |-> << <<batch[1], Len(batch)>> >>] :
        s \in BOOLEAN, n \in {0, Len(batch)}}

Accepted(batch) ==
    [success |-> TRUE, total_new_records |-> Len(batch),
     total_updated_records |-> 0, results |-> << <<batch[1], Len(batch)>> >>]

----------------------------------------------------------------------------
\* chunk_list

RECURSIVE chunk_loop(_, _, _, _)
chunk_loop(items, chunk_size, start_index, chunks) ==
    IF start_index < Len(items)
    THEN LET end_index == Min(start_index + chunk_size, Len(items))
         IN  chunk_loop(items, chunk_size, end_index,
                        Append(chunks, SubSeq(items, start_index + 1, end_index)))
    ELSE chunks

\* the chunks from the last to the first
chunk_list_reversed(items, chunk_size) ==
    LET chunks == chunk_loop(items, chunk_size, 0, <<>>)
    IN  [k \in 1..Len(chunks) |-> chunks[Len(chunks) + 1 - k]]

\* chunk_list keeping only the chunks of full size
chunk_list_fullOnly(items, chunk_size) ==
    SubSeq(chunk_loop(items, chunk_size, 0, <<>>), 1, Len(items) \div chunk_size)

chunk_list(items, chunk_size) == chunk_loop(items, chunk_size, 0, <<>>)

----------------------------------------------------------------------------
\* post_batch and post_batch_adaptive

\* one attempt too many
RetryAgain_inclusive(a) == a <= MAX_RETRIES

\* post_batch, line 104: another attempt follows the failure of this one
RetryAgain(a) == a < MAX_RETRIES

\* a batch of MIN_BATCH_SIZE records is still bisected
IsFatal_strict(batch) == Len(batch) < MIN_BATCH_SIZE

\* the floor is half of MIN_BATCH_SIZE
IsFatal_half(batch) == Len(batch) <= MIN_BATCH_SIZE \div 2

\* post_batch_adaptive, line 116: the failure is re-raised
IsFatal(batch) == Len(batch) <= MIN_BATCH_SIZE

\* the split point at a third
Mid_third(batch) == Len(batch) \div 3

\* the split point rounded up
Mid_up(batch) == (Len(batch) + 1) \div 2

Mid(batch) == Len(batch) \div 2

\* the left half rounded up, overlapping the right half of an odd batch
LeftHalf_ceil(batch) == SubSeq(batch, 1, (Len(batch) + 1) \div 2)

LeftHalf(batch) == SubSeq(batch, 1, Mid(batch))

\* the right half without the record at the split point
RightHalf_dropFirst(batch) == SubSeq(batch, Mid(batch) + 2, Len(batch))

RightHalf(batch) == SubSeq(batch, Mid(batch) + 1, Len(batch))

\* the results of the right half first
Aggregate_rightFirst(res_left, res_right) ==
    [success |-> res_left.success /\ res_right.success,
     total_new_records |-> res_left.total_new_records + res_right.total_new_records,
     total_updated_records |->
         res_left.total_updated_records + res_right.total_updated_records,
     results |-> res_right.results \o res_left.results]

\* the success of the left half only
Aggregate_leftOnly(res_left, res_right) ==
    [success |-> res_left.success,
     total_new_records |-> res_left.total_new_records + res_right.total_new_records,
     total_updated_records |->
         res_left.total_updated_records + res_right.total_updated_records,
     results |-> res_left.results \o res_right.results]

Aggregate(res_left, res_right) ==
    [success |-> res_left.success /\ res_right.success,
     total_new_records |-> res_left.total_new_records + res_right.total_new_records,
     total_updated_records |->
         res_left.total_updated_records + res_right.total_updated_records,
     results |-> res_left.results \o res_right.results]

Frame(batch) == [batch |-> batch, phase |-> "try", res_left |-> NoRes]

\* A call of post_batch_adaptive returns res to the frames stk of its callers:
\* a caller waiting for its left half goes on with its right half, a caller
\* waiting for its right half aggregates and returns in turn.
RECURSIVE Return(_, _)
Return(stk, res) ==
    IF stk = <<>>
    THEN [stack |-> <<>>, returned |-> TRUE, result |-> res]
    ELSE LET f == Head(stk)
         IN  IF f.phase = "left"
             THEN [stack |-> <<Frame(RightHalf(f.batch)),
                               [f EXCEPT !.phase = "right", !.res_left = res]>>
                             \o Tail(stk),
                   returned |-> FALSE, result |-> NoRes]
             ELSE Return(Tail(stk), Aggregate(f.res_left, res))

\* The except clause of post_batch_adaptive for the innermost frame.
Split(stk) ==
    LET f == Head(stk)
    IN  <<Frame(LeftHalf(f.batch)), [f EXCEPT !.phase = "left"]>> \o Tail(stk)

----------------------------------------------------------------------------
\* The paged fetch

\* An identifier is a number, a string or None.  A string is the sequence of
\* its character codes, the digit d having the code d.
IntId(n) == [t |-> "int", v |-> <<n>>]

TextId(chars) == [t |-> "str", v |-> chars]

NoneId == [t |-> "none", v |-> <<>>]

RECURSIVE Digits(_)
Digits(n) == IF n < 10 THEN <<n>> ELSE Digits(n \div 10) \o <<n % 10>>

\* a number formatted with a fraction: n becomes "n.0" ('.' has the code -2)
StrOf_float(eid) == IF eid.t = "int" THEN Digits(eid.v[1]) \o <<-2, 0>> ELSE eid.v

\* str(eid)
StrOf(eid) == IF eid.t = "int" THEN Digits(eid.v[1]) ELSE eid.v

None == -1

NotFetched == [returned |-> FALSE, rows |-> <<>>, ids |-> {}]

\* The rows the endpoint answers the window [from, to] with.
ServerPage(from, to) ==
    SubSeq(table, from + 1, Min(Min(to + 1, Len(table)), from + srv.cap))

\* The Content-Range header of the answer: absent, "items a-b/*" or
\* "items a-b/<total>".
ContentRange ==
    CASE srv.total = "exact" -> [slash |-> TRUE, digits |-> TRUE, n |-> Len(table)]
      [] srv.total = "star"  -> [slash |-> TRUE, digits |-> FALSE, n |-> 0]
      [] OTHER               -> [slash |-> FALSE, digits |-> FALSE, n |-> 0]

\* the window one row too long
RangeTo_exclusive(from) == from + page_size

\* range_to of the window that starts at from
RangeTo(from) == from + page_size - 1

\* the cursor moved one row too far
NextFrom_skip(from) == from + page_size + 1

\* the cursor after a page that is not the last
NextFrom(from) == from + page_size

\* an unparsable total read as 0
ParseTotal_lenient(content_range) ==
    IF content_range.slash THEN content_range.n ELSE None

\* total, as the loop derives it from the header
ParseTotal(content_range) ==
    IF content_range.slash
    THEN IF content_range.digits THEN content_range.n ELSE None
    ELSE None

\* the loop's break condition
LastPage(data, total, range_to) ==
    data = <<>> \/ (total # None /\ range_to + 1 >= total)

\* the ids the id-projecting loops add for a page
IdsOf(data) ==
    {StrOf(data[i].external_id) : i \in {j \in 1..Len(data) : data[j].external_id.t # "none"}}

FetchIdle ==
    /\ fpc = "idle"
    /\ fn = "rows"
    /\ page_size = 1
    /\ table = <<>>
    /\ srv = [cap |-> 1, total |-> "exact"]
    /\ range_from = 0
    /\ rows = <<>>
    /\ ids = {}
    /\ fetched = NotFetched
    /\ reqs = <<>>

\* One request of the loop answered 2xx, and what follows it.
FetchPage ==
    /\ fpc = "request"
    /\ LET range_to == RangeTo(range_from)
           data == ServerPage(range_from, range_to)
           total == ParseTotal(ContentRange)
       IN  /\ reqs' = Append(reqs, [from |-> range_from, to |-> range_to, ok |-> TRUE,
                                    len |-> Len(data), total |-> total])
           /\ rows' = IF fn = "rows" THEN rows \o data ELSE rows
           /\ ids' = IF fn = "ids" THEN ids \cup IdsOf(data) ELSE ids
           /\ IF LastPage(data, total, range_to)
              THEN /\ fpc' = "returned"
                   /\ fetched' = [returned |-> TRUE, rows |-> rows', ids |-> ids']
                   /\ UNCHANGED range_from
              ELSE /\ range_from' = NextFrom(range_from)
                   /\ UNCHANGED <<fpc, fetched>>
    /\ UNCHANGED <<fn, page_size, table, srv>>

\* the error ends the loop and the rows gathered so far are returned
FetchError_partial ==
    /\ fpc = "request"
    /\ reqs' = Append(reqs, [from |-> range_from, to |-> RangeTo(range_from),
                             ok |-> FALSE, len |-> 0, total |-> None])
    /\ fpc' = "returned"
    /\ fetched' = [returned |-> TRUE, rows |-> rows, ids |-> ids]
    /\ UNCHANGED <<fn, page_size, table, srv, range_from, rows, ids>>

\* One request of the loop answered with a status that raise_for_status
\* raises for.
FetchError ==
    /\ fpc = "request"
    /\ reqs' = Append(reqs, [from |-> range_from, to |-> RangeTo(range_from),
                             ok |-> FALSE, len |-> 0, total |-> None])
    /\ fpc' = "raised"
    /\ fetched' = NotFetched
    /\ UNCHANGED <<fn, page_size, table, srv, range_from, rows, ids>>

----------------------------------------------------------------------------
\* reconcile_years

SAMPLE_LIMIT == 50

\* A showdate is missing or empty, shorter than 4 characters, not a number
\* in its first 4 characters, or a date of the year y.
NoDate == [k |-> "none", y |-> 0]

ShortDate == [k |-> "short", y |-> 0]

BadDate == [k |-> "bad", y |-> 0]

DateIn(y) == [k |-> "date", y |-> y]

\* int(sd[:4]) where the loops get that far, None where they skip the row
YearOf(sd) == IF sd.k = "date" THEN sd.y ELSE None

\* bronze_ids_by_year and silver_ids_by_year on the fetched rows
IdsByYear(fetched_rows, y) ==
    {StrOf(fetched_rows[i].external_id) :
        i \in {j \in 1..Len(fetched_rows) :
                  /\ YearOf(fetched_rows[j].showdate) = y
                  /\ fetched_rows[j].external_id.t # "none"}}

\* the rows the endpoint selects for the date window of the year y
RowsOfYear(tbl, y) == SelectSeq(tbl, LAMBDA r : r.showdate.k = "date" /\ r.showdate.y = y)

\* json_ids
JsonIds(recs) ==
    {StrOf(recs[i].uniqueid) : i \in {j \in 1..Len(recs) : recs[j].uniqueid.t # "none"}}

\* the order of Python strings
RECURSIVE LexLess(_, _)
LexLess(a, b) ==
    IF a = <<>> THEN b # <<>>
    ELSE IF b = <<>> THEN FALSE
    ELSE IF a[1] # b[1] THEN a[1] < b[1]
    ELSE LexLess(Tail(a), Tail(b))

\* sorted(list(S)): the strings below an element of S, the element, and the
\* strings above it
RECURSIVE SortedList(_)
SortedList(S) ==
    IF S = {} THEN <<>>
    ELSE LET x == CHOOSE e \in S : TRUE
         IN  SortedList({y \in S : LexLess(y, x)}) \o <<x>>
                 \o SortedList({y \in S : LexLess(x, y)})

\* the whole sorted difference
Sample_uncut(S) == SortedList(S)

\* sorted(list(S))[:50]
Sample(S) == SubSeq(SortedList(S), 1, Min(SAMPLE_LIMIT, Cardinality(S)))

\* the two raw differences the other way round
ReportEntry_swapped(j_ids, b_ids, s_ids) ==
    [json_count |-> Cardinality(j_ids),
     bronze_count |-> Cardinality(b_ids),
     silver_count |-> Cardinality(s_ids),
     json_minus_bronze |-> Sample(b_ids \ j_ids),
     bronze_minus_json |-> Sample(j_ids \ b_ids),
     bronze_minus_silver |-> Sample(b_ids \ s_ids),
     silver_minus_bronze |-> Sample(s_ids \ b_ids)]

\* report[str(year)]
ReportEntry(j_ids, b_ids, s_ids) ==
    [json_count |-> Cardinality(j_ids),
     bronze_count |-> Cardinality(b_ids),
     silver_count |-> Cardinality(s_ids),
     json_minus_bronze |-> Sample(j_ids \ b_ids),
     bronze_minus_json |-> Sample(b_ids \ j_ids),
     bronze_minus_silver |-> Sample(b_ids \ s_ids),
     silver_minus_bronze |-> Sample(s_ids \ b_ids)]

\* a report that keeps its last entry only
Put_only(rep, key, entry) == [k \in {key} |-> entry]

\* report after report[key] = entry
Put(rep, key, entry) ==
    [k \in DOMAIN rep \cup {key} |-> IF k = key THEN entry ELSE rep[k]]

NoReport == <<>>

NoInput == [s |-> <<>>, r |-> <<>>, d |-> <<>>]

ReconcileIdle ==
    /\ script = "reconcile_setlists"
    /\ rpc = "idle"
    /\ ryears = <<>>
    /\ ry = 0
    /\ json_records = <<>>
    /\ raw_table = <<>>
    /\ derived_table = <<>>
    /\ json_ids = {}
    /\ bronze_ids = {}
    /\ silver_ids = {}
    /\ report = NoReport
    /\ report_file = NoReport
    /\ writes = 0
    /\ input = NoInput

OtherIdle == FetchIdle /\ ReconcileIdle

----------------------------------------------------------------------------
\* ingest_years

YearFinished == IF year < n_years THEN "load" ELSE "done"

Init ==
    /\ n_years \in 0..MaxYears
    /\ batch_size \in BatchSizes
    /\ poison = 0
    /\ pc = IF n_years = 0 THEN "done" ELSE "load"
    /\ year = 0
    /\ records = <<>>
    /\ batches = <<>>
    /\ idx = 0
    /\ total_new = 0
    /\ total_updated = 0
    /\ stack = <<>>
    /\ attempt = 0
    /\ last_error = "none"
    /\ raised_batch = <<>>
    /\ okLog = <<>>
    /\ result_log = <<>>
    /\ lastReq = NoReq
    /\ callReqs = 0
    /\ slept = FALSE
    /\ OtherIdle

\* The head of the year loop: load_year_file, chunk_list, and the first batch.
LoadYear(n) ==
    /\ pc = "load"
    /\ year < n_years
    /\ year' = year + 1
    /\ records' = RecordsOfYear(n)
    /\ batches' = chunk_list(records', batch_size)
    /\ total_new' = 0
    /\ total_updated' = 0
    /\ okLog' = <<>>
    /\ result_log' = <<>>
    /\ IF batches' = <<>>
       THEN /\ pc' = IF year' < n_years THEN "load" ELSE "done"
            /\ UNCHANGED <<idx, stack, attempt>>
       ELSE /\ pc' = "post"
            /\ idx' = 1
            /\ stack' = <<Frame(batches'[1])>>
            /\ attempt' = 1
    /\ UNCHANGED <<n_years, batch_size, last_error, raised_batch, poison,
                   lastReq, callReqs, slept>>
    /\ UNCHANGED other_vars

\* One request of post_batch for the innermost frame, answered with status
\* (and body resp when the status is "ok"), and what follows it.
Respond(status, resp) ==
    /\ pc = "post"
    /\ LET batch == Head(stack).batch
       IN  /\ lastReq' = [batch |-> batch, attempt |-> attempt, status |-> status]
           /\ callReqs' = IF attempt = 1 THEN 1 ELSE callReqs + 1
           /\ IF status = "ok"
              THEN LET r == Return(Tail(stack), resp)
                   IN  /\ okLog' = Append(okLog, [top |-> idx, batch |-> batch, resp |-> resp])
                       /\ slept' = FALSE
                       /\ UNCHANGED <<last_error, raised_batch>>
                       /\ IF r.returned
                          THEN /\ result_log' = Append(result_log, r.result)
                               /\ total_new' = total_new + r.result.total_new_records
                               /\ total_updated' =
                                      total_updated + r.result.total_updated_records
                               /\ IF idx < Len(batches)
                                  THEN /\ idx' = idx + 1
                                       /\ stack' = <<Frame(batches[idx + 1])>>
                                       /\ attempt' = 1
                                       /\ pc' = "post"
                                  ELSE /\ stack' = <<>>
                                       /\ pc' = YearFinished
                                       /\ UNCHANGED <<idx, attempt>>
                          ELSE /\ stack' = r.stack
                               /\ attempt' = 1
                               /\ UNCHANGED <<pc, idx, total_new, total_updated,
                                              result_log>>
              ELSE /\ last_error' = status
                   /\ UNCHANGED <<okLog, result_log, total_new, total_updated, idx>>
                   /\ IF RetryAgain(attempt)
                      THEN /\ slept' = TRUE
                           /\ attempt' = attempt + 1
                           /\ UNCHANGED <<pc, stack, raised_batch>>
                      ELSE /\ slept' = FALSE
                           /\ IF IsFatal(batch)
                              THEN /\ pc' = "raised"
                                   /\ raised_batch' = batch
                                   /\ stack' = <<>>
                                   /\ UNCHANGED attempt
                              ELSE /\ stack' = Split(stack)
                                   /\ attempt' = 1
                                   /\ UNCHANGED <<pc, raised_batch>>
    /\ UNCHANGED <<n_years, year, batch_size, records, batches, poison>>
    /\ UNCHANGED other_vars

\* The endpoint answers 2xx with a JSON body.
PostOk ==
    /\ pc = "post"
    /\ \E resp \in Responses(Head(stack).batch) : Respond("ok", resp)

\* The endpoint answers 401.
PostUnauthorized ==
    /\ pc = "post"
    /\ Respond("401", NoRes)

\* The endpoint answers with a status >= 500.
PostServerError ==
    /\ pc = "post"
    /\ Respond("5xx", NoRes)

\* requests.post, raise_for_status or resp.json() raises.
PostTransportError ==
    /\ pc = "post"
    /\ Respond("transport", NoRes)

Next ==
    \/ \E n \in RecordCounts : LoadYear(n)
    \/ PostOk
    \/ PostUnauthorized
    \/ PostServerError
    \/ PostTransportError

Spec == Init /\ [][Next]_vars

----------------------------------------------------------------------------
\* Runs against an endpoint that rejects exactly the submissions holding the
\* record poison and accepts every other submission.

InitPoison ==
    /\ n_years \in 1..MaxYears
    /\ batch_size \in LargeBatchSizes
    /\ poison \in 1..MaxLargeRecords
    /\ pc = "load"
    /\ year = 0
    /\ records = <<>>
    /\ batches = <<>>
    /\ idx = 0
    /\ total_new = 0
    /\ total_updated = 0
    /\ stack = <<>>
    /\ attempt = 0
    /\ last_error = "none"
    /\ raised_batch = <<>>
    /\ okLog = <<>>
    /\ result_log = <<>>
    /\ lastReq = NoReq
    /\ callReqs = 0
    /\ slept = FALSE
    /\ OtherIdle

PoisonAccept ==
    /\ pc = "post"
    /\ poison \notin Range(Head(stack).batch)
    /\ Respond("ok", Accepted(Head(stack).batch))

PoisonReject ==
    /\ pc = "post"
    /\ poison \in Range(Head(stack).batch)
    /\ Respond("5xx", NoRes)

NextPoison ==
    \/ \E n \in LargeRecordCounts : LoadYear(n)
    \/ PoisonAccept
    \/ PoisonReject

SpecPoison == InitPoison /\ [][NextPoison]_vars

----------------------------------------------------------------------------
\* chunk_list alone, on every list of at most MaxChunkLen records and every
\* chunk size from 1 to MaxChunkSize.

InitChunk ==
    /\ \E n \in 0..MaxChunkLen : records = RecordsOfYear(n)
    /\ batch_size \in 1..MaxChunkSize
    /\ pc = "chunk"
    /\ n_years = 0
    /\ poison = 0
    /\ year = 0
    /\ batches = <<>>
    /\ idx = 0
    /\ total_new = 0
    /\ total_updated = 0
    /\ stack = <<>>
    /\ attempt = 0
    /\ last_error = "none"
    /\ raised_batch = <<>>
    /\ okLog = <<>>
    /\ result_log = <<>>
    /\ lastReq = NoReq
    /\ callReqs = 0
    /\ slept = FALSE
    /\ OtherIdle

Chunk ==
    /\ pc = "chunk"
    /\ batches' = chunk_list(records, batch_size)
    /\ pc' = "chunked"
    /\ UNCHANGED <<n_years, year, batch_size, records, idx, total_new,
                   total_updated, stack, attempt, last_error, raised_batch,
                   poison, okLog, result_log, lastReq, callReqs, slept>>
    /\ UNCHANGED other_vars

NextChunk == Chunk

SpecChunk == InitChunk /\ [][NextChunk]_vars

----------------------------------------------------------------------------
\* Runs on batches of up to MaxLargeRecords records against an endpoint that
\* either accepts or fails each request, as it likes.  Every request is
\* answered in the end (each has a timeout) and the single thread goes on.

InitBinary ==
    /\ n_years \in 1..MaxYears
    /\ batch_size \in LargeBatchSizes
    /\ poison = 0
    /\ pc = "load"
    /\ year = 0
    /\ records = <<>>
    /\ batches = <<>>
    /\ idx = 0
    /\ total_new = 0
    /\ total_updated = 0
    /\ stack = <<>>
    /\ attempt = 0
    /\ last_error = "none"
    /\ raised_batch = <<>>
    /\ okLog = <<>>
    /\ result_log = <<>>
    /\ lastReq = NoReq
    /\ callReqs = 0
    /\ slept = FALSE
    /\ OtherIdle

Accept ==
    /\ pc = "post"
    /\ Respond("ok", Accepted(Head(stack).batch))

Fail ==
    /\ pc = "post"
    /\ Respond("transport", NoRes)

NextBinary ==
    \/ \E n \in LargeRecordCounts : LoadYear(n)
    \/ Accept
    \/ Fail

SpecBinary == InitBinary /\ [][NextBinary]_vars /\ WF_vars(NextBinary)

----------------------------------------------------------------------------
\* One call of a paged fetch on a table of at most MaxRows rows with
\* distinct numeric identifiers.  The endpoint answers a window with the rows
\* of the window, srv.cap of them at most, and reports the total, nothing or
\* an unparsable total; any request may be answered with an error status.

IngestIdle ==
    /\ n_years = 0
    /\ batch_size = DEFAULT_BATCH_SIZE
    /\ poison = 0
    /\ pc = "done"
    /\ year = 0
    /\ records = <<>>
    /\ batches = <<>>
    /\ idx = 0
    /\ total_new = 0
    /\ total_updated = 0
    /\ stack = <<>>
    /\ attempt = 0
    /\ last_error = "none"
    /\ raised_batch = <<>>
    /\ okLog = <<>>
    /\ result_log = <<>>
    /\ lastReq = NoReq
    /\ callReqs = 0
    /\ slept = FALSE

TableOf(n) == [i \in 1..n |-> [external_id |-> IntId(i), showdate |-> NoDate]]

InitFetch ==
    /\ IngestIdle
    /\ ReconcileIdle
    /\ fpc = "request"
    /\ fn \in {"rows", "ids"}
    /\ page_size \in 1..(MaxRows + 1)
    /\ \E n \in 0..MaxRows : table = TableOf(n)
    /\ srv \in [cap : 1..(MaxRows + 1), total : {"exact", "star", "absent"}]
    /\ range_from = 0
    /\ rows = <<>>
    /\ ids = {}
    /\ fetched = NotFetched
    /\ reqs = <<>>

FetchPageAlone ==
    /\ FetchPage
    /\ UNCHANGED <<ingest_vars, reconcile_vars>>

FetchErrorAlone ==
    /\ FetchError
    /\ UNCHANGED <<ingest_vars, reconcile_vars>>

NextFetch ==
    \/ FetchPageAlone
    \/ FetchErrorAlone

SpecFetch == InitFetch /\ [][NextFetch]_vars

----------------------------------------------------------------------------
\* The three tiers of a year.  A tier holds the identifiers lo..hi, written
\* as numbers ("int"), as strings ("str") or each of them both ways
\* ("both").  The tables also hold a row without identifier, a row of
\* another year and rows whose showdate is missing, too short or not a
\* number; the file also holds a record without uniqueid.

YEAR == 2012

IdRanges ==
    {<<1, 0>>, <<1, 3>>, <<2, 4>>, <<3, 5>>, <<1, SAMPLE_LIMIT>>,
     <<1, SAMPLE_LIMIT + 1>>, <<1, MaxIds>>}

SmallIdRanges == {<<1, 0>>, <<1, 3>>, <<2, 4>>, <<3, 5>>}

IdForms == {"int", "str", "both"}

TierOf(rng, form) == [lo |-> rng[1], hi |-> rng[2], form |-> form]

IdOf(i, form) == IF form = "int" THEN IntId(i) ELSE TextId(Digits(i))

IdList(tier) ==
    LET one(form) == [k \in 1..(tier.hi - tier.lo + 1) |-> IdOf(tier.lo + k - 1, form)]
    IN  IF tier.form = "both" THEN one("int") \o one("str") ELSE one(tier.form)

TierTable(tier, y) ==
    LET l == IdList(tier)
    IN  <<[external_id |-> NoneId, showdate |-> DateIn(y)],
          [external_id |-> IntId(MaxIds + 1), showdate |-> DateIn(y + 1)]>>
        \o [k \in 1..Len(l) |-> [external_id |-> l[k], showdate |-> DateIn(y)]]
        \o <<[external_id |-> IntId(MaxIds + 2), showdate |-> BadDate],
              [external_id |-> IntId(MaxIds + 3), showdate |-> ShortDate],
              [external_id |-> IntId(MaxIds + 4), showdate |-> NoDate]>>

FileRecords(tier) ==
    LET l == IdList(tier)
    IN  [k \in 1..Len(l) |-> [uniqueid |-> l[k]]] \o <<[uniqueid |-> NoneId]>>

\* The report entry of one year for every choice of the three tiers, from the
\* rows a complete fetch returns.

InitEntry ==
    /\ IngestIdle
    /\ FetchIdle
    /\ script \in {"reconcile_setlists", "ingest_yearly_setlists"}
    /\ rpc = "entry"
    /\ ryears = <<YEAR>>
    /\ ry = 0
    /\ \E rs \in IdRanges, rr \in IdRanges, rd \in IdRanges :
       \E fs \in IdForms, fr \in IdForms, fd \in IdForms :
           input = [s |-> TierOf(rs, fs), r |-> TierOf(rr, fr), d |-> TierOf(rd, fd)]
    /\ json_records = FileRecords(input.s)
    /\ raw_table = TierTable(input.r, YEAR)
    /\ derived_table = TierTable(input.d, YEAR)
    /\ json_ids = {}
    /\ bronze_ids = {}
    /\ silver_ids = {}
    /\ report = NoReport
    /\ report_file = NoReport
    /\ writes = 0

\* the identifiers of the year y a complete fetch of tbl yields
TierIds(tbl, y) ==
    IF script = "reconcile_setlists"
    THEN IdsByYear(tbl, y)
    ELSE IdsOf(RowsOfYear(tbl, y))

BuildEntry ==
    /\ rpc = "entry"
    /\ json_ids' = JsonIds(json_records)
    /\ bronze_ids' = TierIds(raw_table, ryears[1])
    /\ silver_ids' = TierIds(derived_table, ryears[1])
    /\ report' = Put(report, Digits(ryears[1]),
                     ReportEntry(json_ids', bronze_ids', silver_ids'))
    /\ ry' = 1
    /\ rpc' = "built"
    /\ UNCHANGED <<script, ryears, json_records, raw_table, derived_table,
                   report_file, writes, input>>
    /\ UNCHANGED <<ingest_vars, fetch_vars>>

NextEntry == BuildEntry

SpecEntry == InitEntry /\ [][NextEntry]_vars

----------------------------------------------------------------------------
\* A run of reconcile_years, request by request.  The years are drawn from
\* YEAR and the year after it; the file of YEAR and the two tables are built
\* from three small tiers, the file of the other year holds the identifier
\* of the tables' row of that year.  Any file may be missing, any request may
\* be answered with an error status, and the environment of
\* reconcile_setlists may lack the URL or the token.

RunPageSizes == {3, 2 * MaxRows}

YearLists ==
    {<<>>} \cup {<<y>> : y \in {YEAR, YEAR + 1}}
           \cup {<<y1, y2>> : y1 \in {YEAR, YEAR + 1}, y2 \in {YEAR, YEAR + 1}}

\* setlists_{year}.json
YearFile(y) ==
    IF y = YEAR THEN FileRecords(input.s)
    ELSE FileRecords(TierOf(<<MaxIds + 1, MaxIds + 1>>, "str"))

InitReconcile ==
    /\ IngestIdle
    /\ script \in {"reconcile_setlists", "ingest_yearly_setlists"}
    /\ rpc = "year"
    /\ ryears \in YearLists
    /\ ry = 0
    /\ \E rs \in SmallIdRanges, rr \in SmallIdRanges, rd \in SmallIdRanges :
           input = [s |-> TierOf(rs, "int"), r |-> TierOf(rr, "str"),
                    d |-> TierOf(rd, "int")]
    /\ json_records = <<>>
    /\ raw_table = TierTable(input.r, YEAR)
    /\ derived_table = TierTable(input.d, YEAR)
    /\ json_ids = {}
    /\ bronze_ids = {}
    /\ silver_ids = {}
    /\ report = NoReport
    /\ report_file = NoReport
    /\ writes = 0
    /\ fpc = "idle"
    /\ fn = "rows"
    /\ page_size \in RunPageSizes
    /\ table = <<>>
    /\ srv \in [cap : {page_size}, total : {"exact", "absent"}]
    /\ range_from = 0
    /\ rows = <<>>
    /\ ids = {}
    /\ fetched = NotFetched
    /\ reqs = <<>>

\* the call of fetch_all_rows or get_distinct_external_ids for tbl and year y
StartFetch(tbl, y) ==
    /\ fpc' = "request"
    /\ fn' = IF script = "reconcile_setlists" THEN "rows" ELSE "ids"
    /\ table' = IF script = "reconcile_setlists" THEN tbl ELSE RowsOfYear(tbl, y)
    /\ range_from' = 0
    /\ rows' = <<>>
    /\ ids' = {}
    /\ fetched' = NotFetched
    /\ UNCHANGED <<page_size, srv, reqs>>

\* the identifiers of the year y the finished fetch gives
FetchedIds(y) ==
    IF script = "reconcile_setlists" THEN IdsByYear(fetched.rows, y) ELSE fetched.ids

\* the URL or the token is missing
RMissingEnv ==
    /\ rpc = "year"
    /\ ry = 0
    /\ script = "reconcile_setlists"
    /\ rpc' = "raised"
    /\ UNCHANGED <<script, ryears, ry, json_records, raw_table, derived_table,
                   json_ids, bronze_ids, silver_ids, report, report_file,
                   writes, input>>
    /\ UNCHANGED <<ingest_vars, fetch_vars>>

\* the file of the next year is missing or is not an object with a data list
RLoadFails ==
    /\ rpc = "year"
    /\ ry < Len(ryears)
    /\ ry' = ry + 1
    /\ rpc' = "raised"
    /\ UNCHANGED <<script, ryears, json_records, raw_table, derived_table,
                   json_ids, bronze_ids, silver_ids, report, report_file,
                   writes, input>>
    /\ UNCHANGED <<ingest_vars, fetch_vars>>

\* the next year: its file is loaded and the fetch of the raw table starts
RLoad ==
    /\ rpc = "year"
    /\ ry < Len(ryears)
    /\ ry' = ry + 1
    /\ json_records' = YearFile(ryears[ry'])
    /\ json_ids' = JsonIds(json_records')
    /\ StartFetch(raw_table, ryears[ry'])
    /\ rpc' = "bronze"
    /\ UNCHANGED <<script, ryears, raw_table, derived_table, bronze_ids,
                   silver_ids, report, report_file, writes, input>>
    /\ UNCHANGED ingest_vars

RFetchPage ==
    /\ rpc \in {"bronze", "silver"}
    /\ FetchPage
    /\ UNCHANGED <<ingest_vars, reconcile_vars>>

\* nothing catches what the fetch raises
RFetchError ==
    /\ rpc \in {"bronze", "silver"}
    /\ FetchError
    /\ rpc' = IF fpc' = "raised" THEN "raised" ELSE rpc
    /\ UNCHANGED <<script, ryears, ry, json_records, raw_table, derived_table,
                   json_ids, bronze_ids, silver_ids, report, report_file,
                   writes, input>>
    /\ UNCHANGED ingest_vars

\* the raw fetch has returned and the fetch of the derived table starts
RBronzeDone ==
    /\ rpc = "bronze"
    /\ fpc = "returned"
    /\ bronze_ids' = FetchedIds(ryears[ry])
    /\ StartFetch(derived_table, ryears[ry])
    /\ rpc' = "silver"
    /\ UNCHANGED <<script, ryears, ry, json_records, raw_table, derived_table,
                   json_ids, silver_ids, report, report_file, writes, input>>
    /\ UNCHANGED ingest_vars

\* the derived fetch has returned and the entry of the year is built
RSilverDone ==
    /\ rpc = "silver"
    /\ fpc = "returned"
    /\ silver_ids' = FetchedIds(ryears[ry])
    /\ report' = Put(report, Digits(ryears[ry]),
                     ReportEntry(json_ids, bronze_ids, silver_ids'))
    /\ rpc' = "year"
    /\ fpc' = "idle"
    /\ UNCHANGED <<script, ryears, ry, json_records, raw_table, derived_table,
                   json_ids, bronze_ids, report_file, writes, input>>
    /\ UNCHANGED <<fn, page_size, table, srv, range_from, rows, ids, fetched, reqs>>
    /\ UNCHANGED ingest_vars

\* after the last year the report is written
RWrite ==
    /\ rpc = "year"
    /\ ry = Len(ryears)
    /\ report_file' = report
    /\ writes' = writes + 1
    /\ rpc' = "written"
    /\ UNCHANGED <<script, ryears, ry, json_records, raw_table, derived_table,
                   json_ids, bronze_ids, silver_ids, report, input>>
    /\ UNCHANGED <<ingest_vars, fetch_vars>>

NextReconcile ==
    \/ RMissingEnv
    \/ RLoadFails
    \/ RLoad
    \/ RFetchPage
    \/ RFetchError
    \/ RBronzeDone
    \/ RSilverDone
    \/ RWrite

SpecReconcile == InitReconcile /\ [][NextReconcile]_vars

----------------------------------------------------------------------------
\* Vocabulary of the properties

RECURSIVE Flatten(_)
Flatten(ss) == IF ss = <<>> THEN <<>> ELSE Head(ss) \o Flatten(Tail(ss))

BatchesOf(log) == [i \in 1..Len(log) |-> log[i].batch]

\* The successful submissions made for the top-level batch k, in order.
OkOfTop(k) == SelectSeq(okLog, LAMBDA e : e.top = k)

\* The successful submissions of the current top-level batch whose records
\* all lie in the batch b, in order.
OkWithin(b) ==
    SelectSeq(okLog, LAMBDA e : e.top = idx /\ Range(e.batch) \subseteq Range(b))

OkBatchSet == {okLog[i].batch : i \in 1..Len(okLog)}

RECURSIVE AllSuccess(_)
AllSuccess(log) ==
    IF log = <<>> THEN TRUE ELSE Head(log).resp.success /\ AllSuccess(Tail(log))

RECURSIVE SumNew(_)
SumNew(log) ==
    IF log = <<>> THEN 0 ELSE Head(log).resp.total_new_records + SumNew(Tail(log))

RECURSIVE SumUpdated(_)
SumUpdated(log) ==
    IF log = <<>> THEN 0
    ELSE Head(log).resp.total_updated_records + SumUpdated(Tail(log))

RECURSIVE ConcatResults(_)
ConcatResults(log) ==
    IF log = <<>> THEN <<>> ELSE Head(log).resp.results \o ConcatResults(Tail(log))

Combined(log) ==
    [success |-> AllSuccess(log), total_new_records |-> SumNew(log),
     total_updated_records |-> SumUpdated(log), results |-> ConcatResults(log)]

Terminated == pc \in {"done", "raised"}

\* Number of nested bisections around the request that is due.
Depth == Len(stack) - 1

\* Size of the batch post_batch_adaptive was first called with.
InitialSize == Len(stack[Len(stack)].batch)

----------------------------------------------------------------------------
\* C1: when post_batch_adaptive has returned for a top-level batch, the
\* batches of its successful submissions, concatenated in the order they were
\* submitted, are that batch (each record in exactly one of them); when
\* ingest_years has finished a year, the successful submissions of the year
\* concatenate to the year's records.
C1_SubmissionsCoverBatch ==
    /\ \A k \in 1..Len(result_log) : Flatten(BatchesOf(OkOfTop(k))) = batches[k]
    /\ (pc \in {"load", "done"} /\ year >= 1) =>
           Flatten(BatchesOf(okLog)) = records

C1_Witness ==
    /\ pc = "done"
    /\ Len(batches) >= 2
    /\ \E k \in 1..Len(batches) : Len(OkOfTop(k)) >= 3

\* C2: after a 401 answer post_batch does not pause and does not send the
\* batch again.
C2_UnauthorizedNotRetried ==
    lastReq.status = "401" =>
        /\ ~slept
        /\ ~(pc = "post" /\ Head(stack).batch = lastReq.batch
                         /\ attempt = lastReq.attempt + 1)

\* C3: after a 401 answer no half of the batch and no later batch is
\* submitted.
C3_UnauthorizedNotBisected ==
    lastReq.status = "401" =>
        ~(pc = "post" /\ Head(stack).batch # lastReq.batch)

\* C4 (as claimed): with a poison record in a top-level batch of more than
\* MIN_BATCH_SIZE records, the batch whose failure is raised has exactly
\* MIN_BATCH_SIZE records.
C4_RaisedBatchIsMin ==
    (pc = "raised" /\ Len(batches[idx]) > MIN_BATCH_SIZE) =>
        Len(raised_batch) = MIN_BATCH_SIZE

\* C4 (amended): the batch whose failure is raised holds the poison record
\* and has at most MIN_BATCH_SIZE and at least MIN_BATCH_SIZE div 2 records;
\* it has exactly MIN_BATCH_SIZE records for a top-level batch of
\* 2 * MIN_BATCH_SIZE, and 31 or 32 for one of DEFAULT_BATCH_SIZE.
C4_RaisedBatchAtMostMin ==
    (pc = "raised" /\ Len(batches[idx]) > MIN_BATCH_SIZE) =>
        /\ poison \in Range(raised_batch)
        /\ Len(raised_batch) <= MIN_BATCH_SIZE
        /\ Len(raised_batch) >= MIN_BATCH_SIZE \div 2
        /\ Len(batches[idx]) = 2 * MIN_BATCH_SIZE =>
               Len(raised_batch) = MIN_BATCH_SIZE
        /\ Len(batches[idx]) = DEFAULT_BATCH_SIZE =>
               Len(raised_batch) \in {DEFAULT_BATCH_SIZE \div 8,
                                      DEFAULT_BATCH_SIZE \div 8 + 1}

C4_Witness ==
    /\ pc = "raised"
    /\ Len(batches[idx]) = DEFAULT_BATCH_SIZE
    /\ Len(raised_batch) < MIN_BATCH_SIZE

\* The parts of the bisection of b that do not hold the poison record.
RECURSIVE CleanParts(_)
CleanParts(b) ==
    IF poison \notin Range(b) THEN {b}
    ELSE IF Len(b) <= MIN_BATCH_SIZE THEN {}
    ELSE CleanParts(SubSeq(b, 1, Len(b) \div 2))
             \cup CleanParts(SubSeq(b, Len(b) \div 2 + 1, Len(b)))

\* The parts of the bisection of b, which holds the poison record, that lie
\* before the poison record.
RECURSIVE CleanBefore(_)
CleanBefore(b) ==
    IF Len(b) <= MIN_BATCH_SIZE THEN {}
    ELSE IF poison \in Range(SubSeq(b, 1, Len(b) \div 2))
         THEN CleanBefore(SubSeq(b, 1, Len(b) \div 2))
         ELSE {SubSeq(b, 1, Len(b) \div 2)}
                  \cup CleanBefore(SubSeq(b, Len(b) \div 2 + 1, Len(b)))

\* C5 (as claimed): at the end of a run with a poison record, every top-level
\* batch and every bisected half without the poison record was submitted and
\* reported success.
C5_EveryCleanPartSubmitted ==
    Terminated =>
        \A k \in 1..Len(batches) : CleanParts(batches[k]) \subseteq OkBatchSet

\* C5 (amended): when the run raises, the successful submissions are exactly
\* the top-level batches before the poisoned one and the bisected halves that
\* lie before the poison record, all reporting success; the halves after the
\* poison record and the batches after the poisoned batch are not submitted.
C5_CleanPartsBeforePoison ==
    pc = "raised" =>
        /\ OkBatchSet = {batches[k] : k \in 1..(idx - 1)} \cup CleanBefore(batches[idx])
        /\ \A i \in 1..Len(okLog) : okLog[i].resp.success
        /\ \A k \in (idx + 1)..Len(batches) : batches[k] \notin OkBatchSet

C5_Witness ==
    /\ pc = "raised"
    /\ idx > 1
    /\ idx < Len(batches)
    /\ CleanBefore(batches[idx]) # {}
    /\ CleanParts(batches[idx]) # CleanBefore(batches[idx])

\* C6: one call of post_batch sends at most MAX_RETRIES requests; nothing is
\* sent by the call after a successful answer; a status >= 500 or a transport
\* failure on a non-final attempt is followed by the next attempt with the
\* same batch; a failure on attempt MAX_RETRIES ends the call.
C6_AtMostMaxRetries ==
    /\ callReqs <= MAX_RETRIES
    /\ lastReq.status = "ok" => ~(pc = "post" /\ attempt > 1)
    /\ (lastReq.status \in {"5xx", "transport"} /\ lastReq.attempt < MAX_RETRIES) =>
           /\ pc = "post"
           /\ Head(stack).batch = lastReq.batch
           /\ attempt = lastReq.attempt + 1
           /\ callReqs = lastReq.attempt
    /\ (lastReq.status \in FailureStatuses /\ lastReq.attempt >= MAX_RETRIES) =>
           \/ pc = "raised"
           \/ pc = "post" /\ attempt = 1

C6_Witness ==
    /\ callReqs = MAX_RETRIES
    /\ lastReq.status = "5xx"
    /\ lastReq.attempt = MAX_RETRIES
    /\ last_error = "5xx"

\* C7: after the failure of the last attempt for a batch of n records,
\* post_batch_adaptive goes on with batch[0 .. n div 2) if n > MIN_BATCH_SIZE
\* and raises if n <= MIN_BATCH_SIZE; the batches it bisects all have more
\* than MIN_BATCH_SIZE records, and their halves are batch[0 .. n div 2) and
\* batch[n div 2 .. n).
C7_BisectIffAboveMin ==
    /\ (lastReq.status \in FailureStatuses /\ lastReq.attempt = MAX_RETRIES) =>
           LET b == lastReq.batch
           IN  IF Len(b) > MIN_BATCH_SIZE
               THEN /\ pc = "post"
                    /\ Len(stack) >= 2
                    /\ stack[2].batch = b
                    /\ stack[2].phase = "left"
                    /\ stack[1].batch = SubSeq(b, 1, Len(b) \div 2)
               ELSE /\ pc = "raised"
                    /\ raised_batch = b
                    /\ stack = <<>>
    /\ \A i \in 2..Len(stack) :
           LET b == stack[i].batch
           IN  /\ Len(b) > MIN_BATCH_SIZE
               /\ stack[i].phase = "left" =>
                      stack[i - 1].batch = SubSeq(b, 1, Len(b) \div 2)
               /\ stack[i].phase = "right" =>
                      stack[i - 1].batch = SubSeq(b, Len(b) \div 2 + 1, Len(b))
               /\ stack[i].phase # "try"

C7_Witness ==
    /\ pc = "raised"
    /\ Len(raised_batch) < Len(batches[idx])
    /\ Len(OkOfTop(idx)) >= 1

\* C8: the outcome post_batch_adaptive returns for a batch is the combination
\* of the answers to its successful submissions in the order they were made
\* (conjunction of success, sums of the two totals, concatenation of
\* results), and so is the left outcome kept by every bisecting call.
C8_OutcomeCombinesLeaves ==
    /\ \A k \in 1..Len(result_log) : result_log[k] = Combined(OkOfTop(k))
    /\ \A i \in 1..Len(stack) :
           stack[i].phase = "right" =>
               stack[i].res_left =
                   Combined(OkWithin(SubSeq(stack[i].batch, 1,
                                            Len(stack[i].batch) \div 2)))

C8_Witness ==
    /\ Len(result_log) >= 1
    /\ Len(OkOfTop(1)) = 4
    /\ ~result_log[1].success
    /\ OkOfTop(1)[1].resp.success
    /\ result_log[1].total_new_records > 0
    /\ result_log[1].total_updated_records > 0

\* C9 (as claimed): the number d of nested bisections of a batch of n
\* records is at most log2(n / MIN_BATCH_SIZE), that is
\* MIN_BATCH_SIZE * 2^d <= n.
C9_DepthAtMostLog2 ==
    (pc = "post" /\ Depth >= 1) => MIN_BATCH_SIZE * 2 ^ Depth <= InitialSize

C9_DepthBound ==
    (pc = "post" /\ Depth >= 1) => MIN_BATCH_SIZE * 2 ^ (Depth - 1) < InitialSize

\* C9 (amended): every run ends by returning or raising, and the number d of
\* nested bisections of a batch of n records is at most log2(n /
\* MIN_BATCH_SIZE) rounded up: MIN_BATCH_SIZE * 2^(d-1) < n whenever d >= 1.
C9_TerminatesWithinDepth == <>Terminated /\ []C9_DepthBound

C9_Witness ==
    /\ pc = "post"
    /\ Depth = 3
    /\ InitialSize < 8 * MIN_BATCH_SIZE

\* C10: chunk_list(records, B) with B >= 1 returns ceil(N / B) batches, the
\* i-th being records[(i-1)*B .. min(i*B, N)), so that each has at most B
\* records, all but the last have B, none is empty, and their concatenation
\* is records.
C10_ChunksPartition ==
    pc = "chunked" =>
        LET N == Len(records)
            B == batch_size
        IN  /\ Len(batches) = (N + B - 1) \div B
            /\ \A i \in 1..Len(batches) :
                   /\ batches[i] = SubSeq(records, (i - 1) * B + 1, Min(i * B, N))
                   /\ Len(batches[i]) <= B
                   /\ Len(batches[i]) >= 1
                   /\ i < Len(batches) => Len(batches[i]) = B
            /\ Flatten(batches) = records
            /\ N = 0 => batches = <<>>

C10_Witness ==
    /\ pc = "chunked"
    /\ Len(batches) >= 3
    /\ Len(batches[Len(batches)]) < batch_size

----------------------------------------------------------------------------
\* Vocabulary of the properties of the paged fetch

\* The endpoint answers every window with all the rows of the window.
ServesWholeWindows == srv.cap >= page_size

\* The decimal string of each of the numbers 1..n
DecimalStrings(n) == {Digits(i) : i \in 1..n}

CeilDiv(a, b) == (a + b - 1) \div b

\* C11: against an endpoint that answers each window with the rows of the
\* window and reports the total N, a paged fetch with page size 1, N or N + 1
\* returns the N rows, each once and in order (fetch_all_rows), or the N
\* identifiers as strings (the id-projecting fetches).
C11_FetchIsComplete ==
    (/\ fpc = "returned"
     /\ srv.total = "exact"
     /\ ServesWholeWindows
     /\ page_size \in {1, Len(table), Len(table) + 1}) =>
        /\ fn = "rows" => fetched.rows = table
        /\ fn = "ids" => /\ fetched.ids = DecimalStrings(Len(table))
                         /\ Cardinality(fetched.ids) = Len(table)

C11_Witness ==
    /\ fpc = "returned"
    /\ srv.total = "exact"
    /\ ServesWholeWindows
    /\ page_size = 1
    /\ Len(table) = MaxRows
    /\ fn = "ids"
    /\ Len(reqs) = MaxRows

\* C12 (as claimed): when no total is reported, no request follows a page
\* with fewer rows than the window.
C12_StopsAfterShortPage ==
    srv.total # "exact" =>
        \A k \in 1..(Len(reqs) - 1) : reqs[k].len = page_size

\* C12 (amended): when no total is reported, a request follows an answered
\* page exactly if the page is not empty: the fetch returns after the first
\* empty page and not before.
C12_StopsAfterEmptyPage ==
    srv.total # "exact" =>
        /\ \A k \in 1..(Len(reqs) - 1) : reqs[k].len >= 1
        /\ fpc = "returned" => reqs[Len(reqs)].len = 0
        /\ (fpc = "request" /\ reqs # <<>>) => reqs[Len(reqs)].len >= 1

C12_Witness ==
    /\ fpc = "returned"
    /\ srv.total = "star"
    /\ Len(reqs) >= 3
    /\ reqs[Len(reqs) - 1].len < page_size
    /\ reqs[Len(reqs)].len = 0

\* C13: the k-th request (k = 0, 1, ...) asks for the window
\* [k * PAGE_SIZE, (k + 1) * PAGE_SIZE - 1]; the loop stops after an answer
\* if and only if the page is empty or a total is reported with
\* from + PAGE_SIZE >= total, and it moves the cursor by PAGE_SIZE otherwise;
\* with the total reported it sends at most max(1, ceil(total / PAGE_SIZE))
\* requests.
C13_Windows ==
    LET Stops(r) == r.len = 0 \/ (r.total # -1 /\ r.from + page_size >= r.total)
    IN  /\ \A k \in 1..Len(reqs) :
               /\ reqs[k].from = (k - 1) * page_size
               /\ reqs[k].to = k * page_size - 1
        /\ \A k \in 1..(Len(reqs) - 1) : reqs[k].ok /\ ~Stops(reqs[k])
        /\ fpc = "returned" => Stops(reqs[Len(reqs)])
        /\ fpc = "request" =>
               /\ range_from = Len(reqs) * page_size
               /\ reqs # <<>> => ~Stops(reqs[Len(reqs)])
        /\ srv.total = "exact" =>
               Len(reqs) <= IF Len(table) = 0 THEN 1
                            ELSE CeilDiv(Len(table), page_size)

C13_Witness ==
    /\ fpc = "returned"
    /\ srv.total = "exact"
    /\ Len(reqs) = 3
    /\ page_size = 2
    /\ reqs[3].len = 1

\* C14: a request answered with an error status is the last request of the
\* fetch (no later page, no second try), and the call raises without
\* returning any row.
C14_ErrorAborts ==
    /\ \A k \in 1..Len(reqs) :
           ~reqs[k].ok => /\ k = Len(reqs)
                          /\ fpc = "raised"
    /\ fpc = "raised" => /\ ~fetched.returned
                         /\ fetched.rows = <<>>
                         /\ fetched.ids = {}
    /\ fetched.returned => \A k \in 1..Len(reqs) : reqs[k].ok

C14_Witness ==
    /\ fpc = "raised"
    /\ Len(reqs) = 3
    /\ Len(rows) = 4

\* C19: against an endpoint that reports the exact total but answers with
\* fewer rows than the window holds, the fetch still returns every row or
\* identifier.
C19_CompleteWhenServerLimitsRows ==
    (fpc = "returned" /\ srv.total = "exact" /\ srv.cap < page_size) =>
        /\ fn = "rows" => fetched.rows = table
        /\ fn = "ids" => fetched.ids = DecimalStrings(Len(table))

----------------------------------------------------------------------------
\* Vocabulary of the properties of the report

\* The identifiers of a tier, as numbers
Nums(tier) == tier.lo..tier.hi

\* The decimal strings of a set of numbers
Strs(X) == {Digits(i) : i \in X}

Entry == report[Digits(YEAR)]

\* l holds elements of X only, and all of them if X has at most 50
SampleOfSet(l, X) ==
    /\ Range(l) \subseteq X
    /\ Cardinality(X) <= 50 => Range(l) = X

\* l is the list of the min(50, |X|) smallest strings of X in strictly
\* ascending order
SmallestSorted(l, X) ==
    /\ Len(l) = IF Cardinality(X) < 50 THEN Cardinality(X) ELSE 50
    /\ Range(l) \subseteq X
    /\ \A i \in 1..(Len(l) - 1) : LexLess(l[i], l[i + 1])
    /\ \A x \in X \ Range(l) : LexLess(l[Len(l)], x)

\* C16: the four lists of a report entry hold elements of S \ R, R \ S,
\* R \ D and D \ R and nothing else, and the whole difference when it has at
\* most 50 elements; S = {1,2,3}, R = {2,3,4}, D = {3,4,5} give {1}, {4},
\* {2}, {5}.
C16_SetDifferences ==
    rpc = "built" =>
        LET S == Strs(Nums(input.s))
            R == Strs(Nums(input.r))
            D == Strs(Nums(input.d))
        IN  /\ SampleOfSet(Entry.json_minus_bronze, S \ R)
            /\ SampleOfSet(Entry.bronze_minus_json, R \ S)
            /\ SampleOfSet(Entry.bronze_minus_silver, R \ D)
            /\ SampleOfSet(Entry.silver_minus_bronze, D \ R)
            /\ (Nums(input.s) = {1, 2, 3} /\ Nums(input.r) = {2, 3, 4}
                    /\ Nums(input.d) = {3, 4, 5}) =>
                   /\ Entry.json_minus_bronze = << <<1>> >>
                   /\ Entry.bronze_minus_json = << <<4>> >>
                   /\ Entry.bronze_minus_silver = << <<2>> >>
                   /\ Entry.silver_minus_bronze = << <<5>> >>

C16_Witness ==
    /\ rpc = "built"
    /\ Nums(input.s) = {1, 2, 3}
    /\ Nums(input.r) = {2, 3, 4}
    /\ Nums(input.d) = {3, 4, 5}
    /\ Entry.json_count = 3
    /\ Entry.json_minus_bronze = << <<1>> >>

\* C17: each of the four lists has min(50, size of the difference) elements,
\* in strictly ascending order of the identifier strings, and they are the
\* smallest of the difference; the three counts are the sizes of the three
\* identifier sets.
C17_SamplesSortedAndCapped ==
    rpc = "built" =>
        /\ SmallestSorted(Entry.json_minus_bronze, json_ids \ bronze_ids)
        /\ SmallestSorted(Entry.bronze_minus_json, bronze_ids \ json_ids)
        /\ SmallestSorted(Entry.bronze_minus_silver, bronze_ids \ silver_ids)
        /\ SmallestSorted(Entry.silver_minus_bronze, silver_ids \ bronze_ids)
        /\ Entry.json_count = Cardinality(Nums(input.s))
        /\ Entry.bronze_count = Cardinality(Nums(input.r))
        /\ Entry.silver_count = Cardinality(Nums(input.d))

C17_Witness ==
    /\ rpc = "built"
    /\ Cardinality(json_ids \ bronze_ids) > 50
    /\ Len(Entry.json_minus_bronze) = 50
    /\ Entry.json_count > 50
    /\ Entry.json_minus_bronze[1] = <<1, 0>>
    /\ Entry.json_minus_bronze[11] = <<2, 0>>

\* C18: an identifier that is a number in one tier and the string of that
\* number in another tier is in neither difference of the two tiers, and a
\* tier that holds an identifier both ways counts it once.
C18_ComparedAsStrings ==
    rpc = "built" =>
        /\ \A n \in Nums(input.s) \cap Nums(input.r) :
               /\ Digits(n) \notin Range(Entry.json_minus_bronze)
               /\ Digits(n) \notin Range(Entry.bronze_minus_json)
        /\ \A n \in Nums(input.r) \cap Nums(input.d) :
               /\ Digits(n) \notin Range(Entry.bronze_minus_silver)
               /\ Digits(n) \notin Range(Entry.silver_minus_bronze)
        /\ Entry.json_count = Cardinality(Nums(input.s))
        /\ Entry.bronze_count = Cardinality(Nums(input.r))
        /\ Entry.silver_count = Cardinality(Nums(input.d))
        /\ Cardinality(json_ids \cup bronze_ids \cup silver_ids) =
               Cardinality(Nums(input.s) \cup Nums(input.r) \cup Nums(input.d))

C18_Witness ==
    /\ rpc = "built"
    /\ input.s.form = "int"
    /\ input.r.form = "str"
    /\ input.d.form = "both"
    /\ Nums(input.s) = {1, 2, 3}
    /\ Nums(input.r) = {2, 3, 4}
    /\ Nums(input.d) = {3, 4, 5}
    /\ Entry.silver_count = 3
    /\ Entry.bronze_minus_json = << <<4>> >>

\* C15: reconcile_years writes the report at most once and only after the
\* raw and the derived fetch of every requested year have succeeded; when a
\* request fails the run raises, nothing is written, no request follows the
\* failed one, and a written report has one entry for each requested year.
C15_ReportOnlyAfterAllFetches ==
    /\ writes <= 1
    /\ writes = 1 =>
           /\ rpc = "written"
           /\ ry = Len(ryears)
           /\ \A i \in 1..Len(reqs) : reqs[i].ok
           /\ Len(reqs) >= 2 * Len(ryears)
           /\ DOMAIN report_file = {Digits(y) : y \in Range(ryears)}
    /\ writes = 0 => report_file = <<>>
    /\ \A i \in 1..Len(reqs) :
           ~reqs[i].ok => /\ i = Len(reqs)
                          /\ rpc = "raised"
                          /\ writes = 0
                          /\ DOMAIN report_file = {}

C15_Witness ==
    /\ rpc = "raised"
    /\ Len(ryears) = 2
    /\ ry = 2
    /\ DOMAIN report = {Digits(ryears[1])}
    /\ Len(reqs) > 2
    /\ ~reqs[Len(reqs)].ok
    /\ writes = 0

C15_WrittenWitness ==
    /\ rpc = "written"
    /\ ryears = <<YEAR, YEAR + 1>>
    /\ Cardinality(DOMAIN report_file) = 2
    /\ writes = 1

----------------------------------------------------------------------------
\* Vocabulary of the order of the submissions

\* The records of the k-th top-level batch of the year, by their positions
\* in the year's file
TopRecords(k) ==
    {i \in 1..Len(records) : (k - 1) * batch_size < i /\ i <= k * batch_size}

\* The records the endpoint has accepted this year
Sink(log) == UNION {{log[i].batch[j] : j \in 1..Len(log[i].batch)} : i \in 1..Len(log)}

IsPrefix(a, b) == Len(a) <= Len(b) /\ a = SubSeq(b, 1, Len(a))

\* C20, state part: the request due is of the batch idx; the accepted
\* submissions are in the order of the top-level batches; once the run has
\* raised, the failed submission is of the batch idx, every record of the
\* batches before idx is accepted, and nothing of a batch after idx has been
\* submitted.
C20_StateOrder ==
    /\ pc = "post" =>
           /\ stack # <<>>
           /\ \A j \in 1..Len(stack) : Range(stack[j].batch) \subseteq TopRecords(idx)
    /\ \A i \in 1..Len(okLog) :
           /\ Range(okLog[i].batch) \subseteq TopRecords(okLog[i].top)
           /\ okLog[i].top <= idx
           /\ i < Len(okLog) => okLog[i].top <= okLog[i + 1].top
    /\ pc = "raised" =>
           /\ lastReq.status \in {"401", "5xx", "transport"}
           /\ raised_batch = lastReq.batch
           /\ Range(lastReq.batch) \subseteq TopRecords(idx)
           /\ \A k \in 1..(idx - 1) : TopRecords(k) \subseteq Sink(okLog)
           /\ Sink(okLog) \subseteq UNION {TopRecords(k) : k \in 1..idx}
           /\ Sink(okLog) \cap Range(lastReq.batch) = {}

\* C20, step part: every step sends one request, of the batch idx, and the
\* next request is of the same or of the next batch; within a year nothing
\* leaves the accepted submissions; no step follows the raise.
C20_StepOrder ==
    /\ pc # "raised"
    /\ pc = "post" =>
           /\ lastReq'.batch = Head(stack).batch
           /\ Range(lastReq'.batch) \subseteq TopRecords(idx)
           /\ idx' \in {idx, idx + 1} \/ pc' = "load"
           /\ IsPrefix(okLog, okLog')
           /\ Len(okLog') <= Len(okLog) + 1
           /\ (lastReq'.status = "ok") = (Len(okLog') = Len(okLog) + 1)
           /\ idx' = idx + 1 => TopRecords(idx) \subseteq Sink(okLog')
    /\ pc = "load" => lastReq' = lastReq

\* C20: ingest_years submits the top-level batches strictly in input order,
\* one request at a time; when batch k fails fatally the run raises, the
\* records accepted from the batches before k and from the sub-batches of k
\* that succeeded stay accepted, and no record of a batch after k is ever
\* submitted.
C20_BatchesInOrder == [](C20_StateOrder) /\ [][C20_StepOrder]_vars

C20_Witness ==
    /\ pc = "raised"
    /\ idx = 2
    /\ Len(batches) = 3
    /\ \E i \in 1..Len(okLog) : okLog[i].top = 1
    /\ \E i \in 1..Len(okLog) : okLog[i].top = 2
    /\ Len(raised_batch) < Len(batches[2])

----------------------------------------------------------------------------
\* A 2xx answer that reports success = false

\* The step is a request answered 2xx with success = false in the body
RejectedStep ==
    /\ pc = "post"
    /\ lastReq'.status = "ok"
    /\ Len(okLog') = Len(okLog) + 1
    /\ ~okLog'[Len(okLog')].resp.success

\* C21, step part: the answer is logged as returned by post_batch; the run
\* does not raise and does not sleep; the next request, if any, is a first
\* attempt for another batch that is not the left half of this one; when the
\* batch is a top-level batch its outcome has success = false and the loop
\* goes on to the next batch or ends the year.
C21_RejectedStep ==
    RejectedStep =>
        LET b == Head(stack).batch
        IN  /\ okLog'[Len(okLog')].batch = b
            /\ lastReq'.batch = b
            /\ pc' # "raised"
            /\ raised_batch' = raised_batch
            /\ ~slept'
            /\ Len(stack') <= Len(stack)
            /\ pc' = "post" =>
                   /\ attempt' = 1
                   /\ Head(stack').batch # b
                   /\ Head(stack').batch # SubSeq(b, 1, Len(b) \div 2)
            /\ Len(stack) = 1 =>
                   /\ Len(result_log') = Len(result_log) + 1
                   /\ ~result_log'[Len(result_log')].success
                   /\ IF idx < Len(batches)
                      THEN idx' = idx + 1 /\ pc' = "post"
                           /\ Head(stack').batch = batches[idx + 1]
                      ELSE pc' \in {"load", "done"}

\* C21, state part: the outcome of a top-level batch has success = false
\* exactly when one of the answers to its submissions has.
C21_OutcomeShowsRejection ==
    \A k \in 1..Len(result_log) :
        result_log[k].success =
            (\A i \in 1..Len(okLog) : okLog[i].top = k => okLog[i].resp.success)

\* C21: a 2xx answer whose body reports success = false is not a failure:
\* post_batch returns it, post_batch_adaptive neither retries nor bisects,
\* ingest_years goes on to the next batch, and the rejection only shows as
\* success = false in the aggregated outcome.
C21_RejectionIsNotAFailure ==
    [](C21_OutcomeShowsRejection) /\ [][C21_RejectedStep]_vars

C21_Witness ==
    /\ pc = "post"
    /\ idx = 2
    /\ Len(batches[1]) > MIN_BATCH_SIZE
    /\ lastReq.status = "ok"
    /\ lastReq.attempt = 1
    /\ lastReq.batch = batches[1]
    /\ Len(okLog) = 1
    /\ ~okLog[1].resp.success
    /\ Len(result_log) = 1
    /\ ~result_log[1].success
    /\ Head(stack).batch = batches[2]

\* C22: every batch sent is non-empty; a sub-batch made by bisection has at
\* least 25 records and at most half of its parent rounded up; the two
\* halves of a split differ by at most one record and the left half is never
\* the larger one.
C22_BatchSizes ==
    /\ lastReq.status # "none" => Len(lastReq.batch) >= 1
    /\ \A i \in 1..Len(stack) : Len(stack[i].batch) >= 1
    /\ \A i \in 1..Len(okLog) : Len(okLog[i].batch) >= 1
    /\ \A i \in 2..Len(stack) :
           LET parent == Len(stack[i].batch)
               child == Len(stack[i - 1].batch)
               other == parent - child
           IN  /\ child >= 25
               /\ other >= 25
               /\ 2 * child <= parent + 1
               /\ stack[i].phase = "left" => child <= other /\ other - child <= 1
               /\ stack[i].phase = "right" => other <= child /\ child - other <= 1

C22_Witness ==
    /\ pc = "post"
    /\ Len(stack) = 2
    /\ stack[2].phase = "right"
    /\ Len(stack[2].batch) = 51
    /\ Len(stack[1].batch) = 26
    /\ Len(okLog[Len(okLog)].batch) = 25

====
